---- MODULE Spec2Model ----
(***************************************************************************)
(* State-machine model of server.py: the lazily loaded option catalog      *)
(* (_load_options_once), the lazily imported prediction model (_get_model) *)
(* and the five HTTP handlers.                                             *)
(*                                                                         *)
(* Strings are sequences of code points, so that strip(), upper(),         *)
(* split(), join() and Python's string ordering are computed, not assumed. *)
(***************************************************************************)
EXTENDS Integers, Sequences, FiniteSets, TLC

\* ------------------------------------------------------------------ bounds
NReq == 2          \* request slots served at the same time
MaxRows == 2       \* rows of a generated spreadsheet
MaxIcd == 2        \* entries of an ICD multi-select / JSON list
MaxFsChanges == 1  \* times the data files change under the running process

\* ----------------------------------------------------------- string values
s_15_25 == <<49, 53, 45, 50, 53>>                                 \* "15-25"
s_25_35 == <<50, 53, 45, 51, 53>>                                 \* "25-35"
s_35_50 == <<51, 53, 45, 53, 48>>                                 \* "35-50"
s_50_65 == <<53, 48, 45, 54, 53>>                                 \* "50-65"
s_65p == <<54, 53, 43>>                                           \* "65+"
s_0_1 == <<48, 45, 49>>                                           \* "0-1"
s_2_5 == <<50, 45, 53>>                                           \* "2-5"
s_5_10 == <<53, 45, 49, 48>>                                      \* "5-10"
s_10_15 == <<49, 48, 45, 49, 53>>                                 \* "10-15"
s_Dahiliye == <<68, 97, 104, 105, 108, 105, 121, 101>>            \* "Dahiliye"
s_Kardiyoloji == <<75, 97, 114, 100, 105, 121, 111, 108, 111, 106, 105>>
s_GenelCerrahi == <<71, 101, 110, 101, 108, 32, 67, 101, 114, 114, 97, 104, 105>>
s_I10 == <<73, 49, 48>>                                           \* "I10"
s_E11 == <<69, 49, 49>>                                           \* "E11"
s_J18 == <<74, 49, 56>>                                           \* "J18"
s_K35 == <<75, 51, 53>>                                           \* "K35"
s_N39 == <<78, 51, 57>>                                           \* "N39"
s_sep == <<124, 124>>                                             \* "||"

\* ------------------------------------------------- Python str operations
\* str.strip(): the ASCII whitespace characters
IsSpace(c) == c \in {9, 10, 11, 12, 13, 32}

RECURSIVE LStrip(_)
LStrip(s) == IF s = <<>> THEN <<>>
             ELSE IF IsSpace(Head(s)) THEN LStrip(Tail(s)) ELSE s

RECURSIVE RStrip(_)
RStrip(s) == IF s = <<>> THEN <<>>
             ELSE IF IsSpace(s[Len(s)]) THEN RStrip(SubSeq(s, 1, Len(s) - 1)) ELSE s

Strip(s) == RStrip(LStrip(s))

\* str.upper() on ASCII letters
UpperChar(c) == IF c >= 97 /\ c <= 122 THEN c - 32 ELSE c

Upper(s) == [i \in 1..Len(s) |-> UpperChar(s[i])]

\* str.replace(a, b) for one-character a and b
Replace(s, a, b) == [i \in 1..Len(s) |-> IF s[i] = a THEN b ELSE s[i]]

\* does sep occur in s at position i
MatchAt(s, sep, i) ==
    /\ i + Len(sep) - 1 <= Len(s)
    /\ \A k \in 1..Len(sep) : s[i + k - 1] = sep[k]

\* str.split(sep) for a non-empty separator: the pieces, empty ones included
RECURSIVE SplitFrom(_, _, _, _)
SplitFrom(s, sep, i, start) ==
    IF i > Len(s) THEN << SubSeq(s, start, Len(s)) >>
    ELSE IF MatchAt(s, sep, i)
         THEN << SubSeq(s, start, i - 1) >>
              \o SplitFrom(s, sep, i + Len(sep), i + Len(sep))
         ELSE SplitFrom(s, sep, i + 1, start)

Split(s, sep) == SplitFrom(s, sep, 1, 1)

\* sep.join(parts)
RECURSIVE Join(_, _)
Join(parts, sep) ==
    IF parts = <<>> THEN <<>>
    ELSE IF Len(parts) = 1 THEN parts[1]
    ELSE parts[1] \o sep \o Join(Tail(parts), sep)

\* Python's < on str: code-point lexicographic, a proper prefix is smaller
RECURSIVE StrLess(_, _)
StrLess(a, b) ==
    IF b = <<>> THEN FALSE
    ELSE IF a = <<>> THEN TRUE
    ELSE IF Head(a) # Head(b) THEN Head(a) < Head(b)
    ELSE StrLess(Tail(a), Tail(b))

\* Python's < on the key (len(x), x)
KeyLess(a, b) == Len(a) < Len(b) \/ (Len(a) = Len(b) /\ StrLess(a, b))

\* sorted(S) of a set of str
RECURSIVE SortedLex(_)
SortedLex(S) ==
    IF S = {} THEN <<>>
    ELSE LET m == CHOOSE x \in S : \A y \in S \ {x} : StrLess(x, y)
         IN  <<m>> \o SortedLex(S \ {m})

\* sorted(S, key=lambda x: (len(x), x))
RECURSIVE SortedLenLex(_)
SortedLenLex(S) ==
    IF S = {} THEN <<>>
    ELSE LET m == CHOOSE x \in S : \A y \in S \ {x} : KeyLess(x, y)
         IN  <<m>> \o SortedLenLex(S \ {m})

ToSet(q) == {q[i] : i \in 1..Len(q)}

\* [f(x) for x in q if p(x)] for the comprehension used on ICD tokens:
\* x.strip().upper() for the x whose strip() is non-empty
RECURSIVE StripUpperNonEmpty(_)
StripUpperNonEmpty(q) ==
    IF q = <<>> THEN <<>>
    ELSE (IF Strip(Head(q)) # <<>> THEN << Upper(Strip(Head(q))) >> ELSE <<>>)
         \o StripUpperNonEmpty(Tail(q))

RECURSIVE NonEmptyOnly(_)
NonEmptyOnly(q) ==
    IF q = <<>> THEN <<>>
    ELSE (IF Head(q) # <<>> THEN << Head(q) >> ELSE <<>>) \o NonEmptyOnly(Tail(q))

\* ------------------------------------------------ spreadsheet cells (pandas)
\* A cell is a str, a number (v = twice the age, so that halves are exact),
\* NaN (an empty cell), None, or +/- infinity.
CStr(s) == [t |-> "str", s |-> s, v |-> 0]
CNum(h) == [t |-> "num", s |-> <<>>, v |-> h]
CNaN == [t |-> "nan", s |-> <<>>, v |-> 0]
CNone == [t |-> "none", s |-> <<>>, v |-> 0]
CPInf == [t |-> "pinf", s |-> <<>>, v |-> 0]
CNInf == [t |-> "ninf", s |-> <<>>, v |-> 0]

\* Series.dropna(): None and NaN are missing
IsNA(c) == c.t \in {"nan", "none"}

IsDigit(c) == c >= 48 /\ c <= 57

RECURSIVE DigitsVal(_, _)
DigitsVal(s, acc) ==
    IF s = <<>> THEN acc ELSE DigitsVal(Tail(s), 10 * acc + (Head(s) - 48))

\* float(str): surrounding whitespace, an optional sign, then decimal digits,
\* "nan" or "inf"/"infinity" in any case; anything else raises ValueError.
\* (Strings with a decimal point, an exponent or underscores are not drawn.)
ParseFloat(s) ==
    LET t0 == Strip(s)
        signed == t0 # <<>> /\ Head(t0) \in {43, 45}
        neg == signed /\ Head(t0) = 45
        body == IF signed THEN Tail(t0) ELSE t0
        up == Upper(body)
    IN  IF body # <<>> /\ \A i \in 1..Len(body) : IsDigit(body[i])
        THEN [ok |-> TRUE,
              f |-> CNum(IF neg THEN 0 - 2 * DigitsVal(body, 0) ELSE 2 * DigitsVal(body, 0))]
        ELSE IF up = <<78, 65, 78>>
        THEN [ok |-> TRUE, f |-> CNaN]
        ELSE IF up \in {<<73, 78, 70>>, <<73, 78, 70, 73, 78, 73, 84, 89>>}
        THEN [ok |-> TRUE, f |-> IF neg THEN CNInf ELSE CPInf]
        ELSE [ok |-> FALSE, f |-> CNaN]

\* float(y) of a cell: ok = FALSE when it raises
FloatOf(c) ==
    IF c.t = "none" THEN [ok |-> FALSE, f |-> CNaN]
    ELSE IF c.t = "str" THEN ParseFloat(c.s)
    ELSE [ok |-> TRUE, f |-> c]

\* y < 0 and y <= n on floats: every comparison with NaN is False
FloatNeg(f) == f.t = "ninf" \/ (f.t = "num" /\ f.v < 0)
FloatLeq(f, n) == f.t = "ninf" \/ (f.t = "num" /\ f.v <= 2 * n)

\* _yas_to_group: the label cell, or None
yas_to_group(y) ==
    LET p == FloatOf(y) IN
    IF ~p.ok THEN CNone
    ELSE IF FloatNeg(p.f) THEN CNone
    ELSE IF FloatLeq(p.f, 1) THEN CStr(s_0_1)
    ELSE IF FloatLeq(p.f, 5) THEN CStr(s_2_5)
    ELSE IF FloatLeq(p.f, 10) THEN CStr(s_5_10)
    ELSE IF FloatLeq(p.f, 15) THEN CStr(s_10_15)
    ELSE IF FloatLeq(p.f, 25) THEN CStr(s_15_25)
    ELSE IF FloatLeq(p.f, 35) THEN CStr(s_25_35)
    ELSE IF FloatLeq(p.f, 50) THEN CStr(s_35_50)
    ELSE IF FloatLeq(p.f, 65) THEN CStr(s_50_65)
    ELSE CStr(s_65p)

\* A DataFrame: the set of column names it has, and the columns (a column the
\* frame lacks is <<>>).  Column names: YasGrup, Yas, Bolum, IcdKodu, IcdSetKey.
HasCol(df, name) == name \in df.has

\* df.get(name, pd.Series([], dtype=object))
DfGet(df, name) == IF HasCol(df, name) THEN df.col[name] ELSE <<>>

\* _derive_yasgrup_if_needed
derive_yasgrup_if_needed(df) ==
    IF HasCol(df, "YasGrup") THEN df
    ELSE IF ~HasCol(df, "Yas")
    THEN [df EXCEPT !.has = @ \cup {"YasGrup"},
                    !.col["YasGrup"] = [i \in 1..df.rows |-> CNone]]
    ELSE [df EXCEPT !.has = @ \cup {"YasGrup"},
                    !.col["YasGrup"] = [i \in 1..df.rows |-> yas_to_group(df.col["Yas"][i])]]

\* .dropna().astype(str) on a column of str cells and missing cells
RECURSIVE DropNaStr(_)
DropNaStr(colv) ==
    IF colv = <<>> THEN <<>>
    ELSE (IF IsNA(Head(colv)) THEN <<>> ELSE << Head(colv).s >>) \o DropNaStr(Tail(colv))

RECURSIVE StripAll(_)
StripAll(q) == IF q = <<>> THEN <<>> ELSE << Strip(Head(q)) >> \o StripAll(Tail(q))

\* the values in the order .unique().tolist() gives them: first seen first
RECURSIVE FirstSeen(_, _)
FirstSeen(q, seen) ==
    IF q = <<>> THEN <<>>
    ELSE (IF Head(q) \in seen THEN <<>> ELSE << Head(q) >>)
         \o FirstSeen(Tail(q), seen \cup {Head(q)})

safe_unique_unsorted(series) == FirstSeen(NonEmptyOnly(StripAll(DropNaStr(series))), {})

\* _safe_unique
safe_unique(series) ==
    LET vals == NonEmptyOnly(StripAll(DropNaStr(series)))
    IN  SortedLenLex(ToSet(vals))

\* the tokens of every cell of a column, concatenated
RECURSIVE PrimaryIcdTokens(_)
PrimaryIcdTokens(raw) ==
    IF raw = <<>> THEN <<>>
    ELSE StripUpperNonEmpty(Split(Replace(Head(raw), 59, 44), <<44>>))
         \o PrimaryIcdTokens(Tail(raw))

\* lines 99-107: the ICD list of the primary spreadsheet
primary_icd_list(df) ==
    IF HasCol(df, "IcdKodu")
    THEN SortedLex(ToSet(PrimaryIcdTokens(DropNaStr(df.col["IcdKodu"]))))
    ELSE <<>>

RECURSIVE SecondaryIcdTokens(_)
SecondaryIcdTokens(raw) ==
    IF raw = <<>> THEN <<>>
    ELSE NonEmptyOnly(Split(Head(raw), s_sep)) \o SecondaryIcdTokens(Tail(raw))

\* lines 116-120: the ICD list of the secondary spreadsheet
secondary_icd_list(df) ==
    SortedLex(ToSet(SecondaryIcdTokens(DropNaStr(DfGet(df, "IcdSetKey")))))

DEFAULT_YASGRUP == << s_15_25, s_25_35, s_35_50, s_50_65, s_65p >>
DEFAULT_BOLUM == << s_Dahiliye, s_Kardiyoloji, s_GenelCerrahi >>
DEFAULT_ICD == << s_I10, s_E11, s_J18, s_K35, s_N39 >>

\* ------------------------------------------------------ ICD key of a request
\* A form / JSON value: [jt, items, s, n].  jt is "absent", "null", "list",
\* "str", "int", "bool" or "dict"; items are the strings of a list, s the
\* text of a str, n the int / bool (0, 1) / number of keys of a dict.
JAbsent == [jt |-> "absent", items |-> <<>>, s |-> <<>>, n |-> 0]
JNull == [jt |-> "null", items |-> <<>>, s |-> <<>>, n |-> 0]
JList(q) == [jt |-> "list", items |-> q, s |-> <<>>, n |-> 0]
JStr(s) == [jt |-> "str", items |-> <<>>, s |-> s, n |-> 0]
JInt(n) == [jt |-> "int", items |-> <<>>, s |-> <<>>, n |-> n]
JBool(n) == [jt |-> "bool", items |-> <<>>, s |-> <<>>, n |-> n]
JDict(n) == [jt |-> "dict", items |-> <<>>, s |-> <<>>, n |-> n]

\* bool(x) in Python
Truthy(j) ==
    CASE j.jt = "list" -> j.items # <<>>
      [] j.jt = "str" -> j.s # <<>>
      [] j.jt \in {"int", "bool", "dict"} -> j.n # 0
      [] OTHER -> FALSE

icd_key_from_inputs_unsorted(icd_multi, icd_free_text) ==
    LET a == IF Truthy(icd_multi)
             THEN IF icd_multi.jt = "list" THEN StripUpperNonEmpty(icd_multi.items)
                  ELSE << Upper(Strip(icd_multi.s)) >>
             ELSE <<>>
        b == IF Truthy(icd_free_text)
             THEN StripUpperNonEmpty(Split(Replace(icd_free_text.s, 59, 44), <<44>>))
             ELSE <<>>
    IN  [key |-> Join(a \o b, s_sep), icds |-> a \o b]

\* _icd_key_from_inputs: (key, icds)
icd_key_from_inputs(icd_multi, icd_free_text) ==
    LET a == IF Truthy(icd_multi)
             THEN IF icd_multi.jt = "list" THEN StripUpperNonEmpty(icd_multi.items)
                  ELSE << Upper(Strip(icd_multi.s)) >>
             ELSE <<>>
        b == IF Truthy(icd_free_text)
             THEN StripUpperNonEmpty(Split(Replace(icd_free_text.s, 59, 44), <<44>>))
             ELSE <<>>
        icds == SortedLex(ToSet(a \o b))
    IN  [key |-> Join(icds, s_sep), icds |-> icds]

\* line 326: the key api_predict builds from the JSON list
api_icd_key(icds_in) == Join(SortedLex(ToSet(StripUpperNonEmpty(icds_in))), s_sep)

\* ------------------------------------------------------------ blend (floats)
\* A float result: [t, q] with t "num", "nan", "pinf" or "ninf" and q the value
\* in quarters.  An estimate returned by the model: [py, t, v] with py the
\* Python type ("None", "float", or "other" for a number that is not a float
\* instance, such as an int or a numpy.float32) and v the value in whole days.
FNum(q) == [t |-> "num", q |-> q]
FNaN == [t |-> "nan", q |-> 0]
FPInf == [t |-> "pinf", q |-> 0]
FNInf == [t |-> "ninf", q |-> 0]

ENone == [py |-> "None", t |-> "num", v |-> 0]
EVal(py, t, v) == [py |-> py, t |-> t, v |-> v]

\* w * float(p_ens), w = w4 / 4 in [0, 1]: 0 * inf is NaN
WTimes(w4, e) ==
    CASE e.t = "num" -> FNum(w4 * e.v)
      [] e.t = "nan" -> FNaN
      [] e.t = "pinf" -> IF w4 = 0 THEN FNaN ELSE FPInf
      [] e.t = "ninf" -> IF w4 = 0 THEN FNaN ELSE FNInf

\* a + b for a finite a
FAdd(a, b) == IF b.t = "num" THEN FNum(a.q + b.q) ELSE b

UseEnsemble_nonan(p_ens) == p_ens.py # "None"

\* lines 288 / 330: p_ens is not None and not (isinstance(p_ens, float) and
\* (math.isnan(p_ens) or math.isinf(p_ens)))
UseEnsemble(p_ens) ==
    /\ p_ens.py # "None"
    /\ ~(p_ens.py = "float" /\ p_ens.t \in {"nan", "pinf", "ninf"})

\* The module attribute XGB_RULE_BLEND: [k, q] with k "absent", "bad" (float()
\* of it raises) or "num" (q quarters).
\* _get_blend_w(0.50), called with the model loaded: in quarters
get_blend_w(attr) == IF attr.k = "num" THEN attr.q ELSE 2

\* lines 288-292 / 330-334: pred_final
PredFinal(pred_rule, p_ens, attr) ==
    IF UseEnsemble(p_ens)
    THEN FAdd(FNum((4 - get_blend_w(attr)) * pred_rule), WTimes(get_blend_w(attr), p_ens))
    ELSE FNum(4 * pred_rule)

\* The opaque model functions, as uninterpreted applications
clean_icd_set_key(key) == [clean |-> key]
Call(fn, a1, a2, a3, a4) == [fn |-> fn, a1 |-> a1, a2 |-> a2, a3 |-> a3, a4 |-> a4]

\* lines 282-286, 294: the model calls of tahmin_post, in order
TahminCalls(inp, final) ==
    LET k == icd_key_from_inputs(inp.icd, inp.free)
        icd_key == clean_icd_set_key(k.key)
    IN  << Call("clean_icd_set_key", k.key, <<>>, <<>>, <<>>),
           Call("predict_one", inp.yasgrup, inp.bolum, icd_key, <<>>),
           Call("xgb_predict_ens", inp.yasgrup, inp.bolum, icd_key, k.icds),
           Call("round_half_up", final, <<>>, <<>>, <<>>) >>

\* payload.get("icd", []) or []
IcdsIn(icd) == IF Truthy(icd) THEN icd ELSE JList(<<>>)

\* lines 320-328, 343: the model calls of api_predict, in order
ApiCalls(inp, final) ==
    LET yasgrup == Strip(inp.yasgrup)
        bolum == Strip(inp.bolum)
        icds_in == IcdsIn(inp.icd).items
        key == api_icd_key(icds_in)
        icd_key == clean_icd_set_key(key)
    IN  << Call("clean_icd_set_key", key, <<>>, <<>>, <<>>),
           Call("predict_one", yasgrup, bolum, icd_key, <<>>),
           Call("xgb_predict_ens", yasgrup, bolum, icd_key, icds_in),
           Call("round_half_up", final, <<>>, <<>>, <<>>) >>

\* ------------------------------------------------------------------- state
VARIABLES
    _OPTIONS_READY,  \* line 49
    YASGRUP_LIST,    \* line 46
    BOLUM_LIST,      \* line 47
    ICD_LIST,        \* line 48
    _model,          \* line 22: "None" or "proje"
    _model_err,      \* line 23: "None" or the error text
    excel,           \* Veri2024.xlsx on disk: [exists, df]
    pred,            \* PRED_LOS.xlsx on disk: [exists, df]
    importable,      \* would import_module("proje") succeed now
    changes,         \* times the environment (files, module) has changed
    req,             \* the requests being served, one per slot
    origin,          \* which call of _load_options_once wrote each list
    catalogSrc,      \* the branch that last set _OPTIONS_READY
    importFailed     \* import_module("proje") has raised at least once

vars == << _OPTIONS_READY, YASGRUP_LIST, BOLUM_LIST, ICD_LIST, _model, _model_err,
           excel, pred, importable, changes, req, origin, catalogSrc,
           importFailed >>

lists == << YASGRUP_LIST, BOLUM_LIST, ICD_LIST >>
env == << excel, pred, importable, changes >>
modelv == << _model, _model_err, importFailed >>

Req == 1..NReq

ColNames == {"YasGrup", "Yas", "Bolum", "IcdKodu", "IcdSetKey"}

\* A spreadsheet as read_excel returns it, from its columns and rows
MkDf(has, rws) ==
    [rows |-> Len(rws),
     has |-> has,
     col |-> [c \in ColNames |->
                IF c \in has THEN [i \in 1..Len(rws) |-> rws[i][c]] ELSE <<>>]]

NoDf == MkDf({}, <<>>)
AbsentFile == [exists |-> FALSE, df |-> NoDf]
File(df) == [exists |-> TRUE, df |-> df]

Row(yg, y, b, icd, key) ==
    [YasGrup |-> yg, Yas |-> y, Bolum |-> b, IcdKodu |-> icd, IcdSetKey |-> key]

SeqsUpTo(S, n) == UNION {[1..k -> S] : k \in 0..n}

\* Rows of the primary spreadsheet (Veri2024.xlsx)
PRows == {
    Row(CStr(s_35_50), CNum(1), CStr(s_Dahiliye), CStr(<<105, 49, 48, 59, 32, 101, 49, 49>>), CNaN),
    Row(CStr(s_65p), CNum(2), CStr(<<32, 65, 99, 105, 108>>), CStr(<<73, 49, 48, 44, 69, 49, 49>>), CNaN),
    Row(CNaN, CNum(3), CStr(<<75, 66, 66, 32>>), CNaN, CNaN),
    Row(CStr(<<32>>), CNum(-2), CStr(<<107, 98, 98>>), CStr(<<32, 107, 51, 53, 32, 44, 44>>), CNaN),
    Row(CStr(s_15_25), CNaN, CNaN, CStr(s_E11), CNaN),
    Row(CStr(s_65p), CNum(131), CStr(s_Dahiliye), CStr(<<>>), CNaN),
    Row(CStr(<<32, 54, 53, 43>>), CStr(<<55>>), CStr(<<32>>), CStr(s_I10), CNaN),
    Row(CStr(s_2_5), CStr(<<97, 98, 99>>), CStr(s_Kardiyoloji), CStr(<<59>>), CNaN),
    Row(CStr(s_5_10), CNone, CStr(<<75, 66, 66>>), CStr(s_K35), CNaN),
    Row(CStr(s_10_15), CNum(50), CStr(s_GenelCerrahi), CStr(<<101, 49, 49>>), CNaN) }

PSchemas == { {"Yas", "Bolum", "IcdKodu"}, {"YasGrup", "Yas", "Bolum", "IcdKodu"}, {"Bolum"} }

\* Rows of the secondary spreadsheet (PRED_LOS.xlsx)
SRows == {
    Row(CStr(s_35_50), CNaN, CStr(s_Kardiyoloji), CNaN, CStr(<<75, 51, 53, 124, 124, 73, 49, 48>>)),
    Row(CStr(s_65p), CNaN, CStr(s_Dahiliye), CNaN, CStr(<<73, 49, 48, 124, 124, 69, 49, 49>>)),
    Row(CStr(s_35_50), CNaN, CNaN, CNaN, CStr(s_sep)),
    Row(CNaN, CNaN, CStr(<<32, 65, 99, 105, 108>>), CNaN, CNaN) }

SSchemas == { {"YasGrup", "Bolum", "IcdSetKey"}, {"Bolum"} }

\* every spreadsheet of at most MaxRows rows
RichPrimary == { File(MkDf(h, q)) : h \in PSchemas, q \in SeqsUpTo(PRows, MaxRows) }
RichSecondary == { File(MkDf(h, q)) : h \in SSchemas, q \in SeqsUpTo(SRows, MaxRows) }

\* two fixed spreadsheets, for the runs that are about the requests
P1 == File(MkDf({"Yas", "Bolum", "IcdKodu"},
        << Row(CNaN, CNum(1), CStr(s_Dahiliye), CStr(<<105, 49, 48, 59, 32, 101, 49, 49>>), CNaN),
           Row(CNaN, CNum(131), CStr(<<75, 66, 66, 32>>), CStr(s_K35), CNaN) >>))
S1 == File(MkDf({"YasGrup", "Bolum", "IcdSetKey"},
        << Row(CStr(s_35_50), CNaN, CStr(s_Kardiyoloji), CNaN, CStr(<<75, 51, 53, 124, 124, 73, 49, 48>>)) >>))

\* ---------------------------------------------------------------- requests
Kinds == {"health", "form_get", "api_options", "tahmin_post", "api_predict"}
AsyncKinds == {"tahmin_post", "api_predict"}

NoInput == [yasgrup |-> <<>>, bolum |-> <<>>, icd |-> JAbsent, free |-> JAbsent]
NoResp == [status |-> 0, error |-> "None", warn |-> FALSE, calls |-> <<>>,
           rule |-> 0, ens |-> ENone, attr |-> [k |-> "absent", q |-> 0], final |-> FNum(0)]

IdleReq == [kind |-> "none", pc |-> "idle", inp |-> NoInput, df |-> NoDf,
            path |-> "none", raisedAt |-> "none", derived |-> FALSE,
            gm |-> [line |-> 0, imp |-> FALSE],
            view |-> << <<>>, <<>>, <<>> >>, vo |-> << 0, 0, 0 >>, resp |-> NoResp]

\* the statements of _load_options_once inside the try block that call pandas
TryPcs == {"read_p", "icd_p", "yas_p", "bol_p", "read_s", "yas_s", "bol_s", "icd_s"}
LoadPcs == {"chk", "ex1", "ex2", "d_y", "d_b", "d_i", "rdy", "x_y", "x_b", "x_i", "x_r"}
              \cup TryPcs

\* where a handler continues when _load_options_once() returns
AfterLoad(kind) ==
    CASE kind = "form_get" -> "fg_warn"
      [] kind = "api_options" -> "rd_y"
      [] OTHER -> "gm"

\* requests are served one at a time
Solo(r) == \A q \in Req \ {r} : req[q].pc = "idle"

Set(r, rec) == req' = [req EXCEPT ![r] = rec]
Goto(r, pc) == req' = [req EXCEPT ![r].pc = pc]

\* --------------------------------------------------- _load_options_once
LoadCheck_nocache(r) ==
    /\ req[r].pc = "chk"
    /\ Goto(r, "ex1")
    /\ UNCHANGED << _OPTIONS_READY, lists, modelv, env, origin, catalogSrc >>

\* lines 92-93: if _OPTIONS_READY: return
LoadCheck(r) ==
    /\ req[r].pc = "chk"
    /\ IF _OPTIONS_READY
       THEN Set(r, [req[r] EXCEPT !.pc = AfterLoad(req[r].kind), !.path = "cached"])
       ELSE Goto(r, "ex1")
    /\ UNCHANGED << _OPTIONS_READY, lists, modelv, env, origin, catalogSrc >>

\* line 95: os.path.exists(EXCEL_PATH)
LoadExists1(r) ==
    /\ req[r].pc = "ex1"
    /\ Goto(r, IF excel.exists THEN "read_p" ELSE "ex2")
    /\ UNCHANGED << _OPTIONS_READY, lists, modelv, env, origin, catalogSrc >>

\* line 112: os.path.exists(PRED_LOS_XLSX); the else branch is the default catalog
LoadExists2(r) ==
    /\ req[r].pc = "ex2"
    /\ IF pred.exists
       THEN Goto(r, "read_s")
       ELSE Set(r, [req[r] EXCEPT !.pc = "d_y", !.path = "nofile"])
    /\ UNCHANGED << _OPTIONS_READY, lists, modelv, env, origin, catalogSrc >>

\* lines 96-97: read_excel raises when the file is gone by now
LoadReadP(r) ==
    /\ req[r].pc = "read_p"
    /\ IF excel.exists
       THEN Set(r, [req[r] EXCEPT !.pc = "icd_p", !.path = "primary",
                                  !.df = derive_yasgrup_if_needed(excel.df),
                                  !.derived = ~HasCol(excel.df, "YasGrup")
                                              /\ HasCol(excel.df, "Yas")])
       ELSE Set(r, [req[r] EXCEPT !.pc = "x_y", !.path = "raised", !.raisedAt = req[r].pc])
    /\ UNCHANGED << _OPTIONS_READY, lists, modelv, env, origin, catalogSrc >>

\* lines 99-107
LoadIcdP(r) ==
    /\ req[r].pc = "icd_p"
    /\ ICD_LIST' = primary_icd_list(req[r].df)
    /\ origin' = [origin EXCEPT !.i = r]
    /\ Goto(r, "yas_p")
    /\ UNCHANGED << _OPTIONS_READY, YASGRUP_LIST, BOLUM_LIST, modelv, env, catalogSrc >>

\* line 109
LoadYasP(r) ==
    /\ req[r].pc = "yas_p"
    /\ YASGRUP_LIST' = safe_unique(DfGet(req[r].df, "YasGrup"))
    /\ origin' = [origin EXCEPT !.y = r]
    /\ Goto(r, "bol_p")
    /\ UNCHANGED << _OPTIONS_READY, BOLUM_LIST, ICD_LIST, modelv, env, catalogSrc >>

\* line 110
LoadBolP(r) ==
    /\ req[r].pc = "bol_p"
    /\ BOLUM_LIST' = safe_unique(DfGet(req[r].df, "Bolum"))
    /\ origin' = [origin EXCEPT !.b = r]
    /\ Goto(r, "rdy")
    /\ UNCHANGED << _OPTIONS_READY, YASGRUP_LIST, ICD_LIST, modelv, env, catalogSrc >>

\* line 113
LoadReadS(r) ==
    /\ req[r].pc = "read_s"
    /\ IF pred.exists
       THEN Set(r, [req[r] EXCEPT !.pc = "yas_s", !.path = "secondary", !.df = pred.df])
       ELSE Set(r, [req[r] EXCEPT !.pc = "x_y", !.path = "raised", !.raisedAt = req[r].pc])
    /\ UNCHANGED << _OPTIONS_READY, lists, modelv, env, origin, catalogSrc >>

\* line 114
LoadYasS(r) ==
    /\ req[r].pc = "yas_s"
    /\ YASGRUP_LIST' = safe_unique(DfGet(req[r].df, "YasGrup"))
    /\ origin' = [origin EXCEPT !.y = r]
    /\ Goto(r, "bol_s")
    /\ UNCHANGED << _OPTIONS_READY, BOLUM_LIST, ICD_LIST, modelv, env, catalogSrc >>

\* line 115
LoadBolS(r) ==
    /\ req[r].pc = "bol_s"
    /\ BOLUM_LIST' = safe_unique(DfGet(req[r].df, "Bolum"))
    /\ origin' = [origin EXCEPT !.b = r]
    /\ Goto(r, "icd_s")
    /\ UNCHANGED << _OPTIONS_READY, YASGRUP_LIST, ICD_LIST, modelv, env, catalogSrc >>

\* lines 116-120
LoadIcdS(r) ==
    /\ req[r].pc = "icd_s"
    /\ ICD_LIST' = secondary_icd_list(req[r].df)
    /\ origin' = [origin EXCEPT !.i = r]
    /\ Goto(r, "rdy")
    /\ UNCHANGED << _OPTIONS_READY, YASGRUP_LIST, BOLUM_LIST, modelv, env, catalogSrc >>

\* line 122
LoadDefaultY(r) ==
    /\ req[r].pc = "d_y"
    /\ YASGRUP_LIST' = DEFAULT_YASGRUP
    /\ origin' = [origin EXCEPT !.y = r]
    /\ Goto(r, "d_b")
    /\ UNCHANGED << _OPTIONS_READY, BOLUM_LIST, ICD_LIST, modelv, env, catalogSrc >>

\* line 123
LoadDefaultB(r) ==
    /\ req[r].pc = "d_b"
    /\ BOLUM_LIST' = DEFAULT_BOLUM
    /\ origin' = [origin EXCEPT !.b = r]
    /\ Goto(r, "d_i")
    /\ UNCHANGED << _OPTIONS_READY, YASGRUP_LIST, ICD_LIST, modelv, env, catalogSrc >>

\* line 124
LoadDefaultI(r) ==
    /\ req[r].pc = "d_i"
    /\ ICD_LIST' = DEFAULT_ICD
    /\ origin' = [origin EXCEPT !.i = r]
    /\ Goto(r, "rdy")
    /\ UNCHANGED << _OPTIONS_READY, YASGRUP_LIST, BOLUM_LIST, modelv, env, catalogSrc >>

\* line 125: _OPTIONS_READY = True, then the call returns
LoadReady(r) ==
    /\ req[r].pc = "rdy"
    /\ _OPTIONS_READY' = TRUE
    /\ catalogSrc' = req[r].path
    /\ Goto(r, AfterLoad(req[r].kind))
    /\ UNCHANGED << lists, modelv, env, origin >>

\* line 126: a statement of the try block that calls pandas raises
LoadRaise(r) ==
    /\ req[r].pc \in TryPcs
    /\ Set(r, [req[r] EXCEPT !.pc = "x_y", !.path = "raised", !.raisedAt = req[r].pc])
    /\ UNCHANGED << _OPTIONS_READY, lists, modelv, env, origin, catalogSrc >>

\* line 127
LoadExceptY(r) ==
    /\ req[r].pc = "x_y"
    /\ YASGRUP_LIST' = DEFAULT_YASGRUP
    /\ origin' = [origin EXCEPT !.y = r]
    /\ Goto(r, "x_b")
    /\ UNCHANGED << _OPTIONS_READY, BOLUM_LIST, ICD_LIST, modelv, env, catalogSrc >>

\* line 128
LoadExceptB(r) ==
    /\ req[r].pc = "x_b"
    /\ BOLUM_LIST' = DEFAULT_BOLUM
    /\ origin' = [origin EXCEPT !.b = r]
    /\ Goto(r, "x_i")
    /\ UNCHANGED << _OPTIONS_READY, YASGRUP_LIST, ICD_LIST, modelv, env, catalogSrc >>

LoadExceptI_skip(r) ==
    /\ req[r].pc = "x_i"
    /\ Goto(r, "x_r")
    /\ UNCHANGED << _OPTIONS_READY, lists, modelv, env, origin, catalogSrc >>

\* line 129
LoadExceptI(r) ==
    /\ req[r].pc = "x_i"
    /\ ICD_LIST' = DEFAULT_ICD
    /\ origin' = [origin EXCEPT !.i = r]
    /\ Goto(r, "x_r")
    /\ UNCHANGED << _OPTIONS_READY, YASGRUP_LIST, BOLUM_LIST, modelv, env, catalogSrc >>

\* line 130: _OPTIONS_READY = True, then the call returns
LoadExceptReady(r) ==
    /\ req[r].pc = "x_r"
    /\ _OPTIONS_READY' = TRUE
    /\ catalogSrc' = req[r].path
    /\ Goto(r, AfterLoad(req[r].kind))
    /\ UNCHANGED << lists, modelv, env, origin >>

\* one step of a call of _load_options_once
LoadStep(r) ==
    \/ LoadCheck(r) \/ LoadExists1(r) \/ LoadExists2(r)
    \/ LoadReadP(r) \/ LoadIcdP(r) \/ LoadYasP(r) \/ LoadBolP(r)
    \/ LoadReadS(r) \/ LoadYasS(r) \/ LoadBolS(r) \/ LoadIcdS(r)
    \/ LoadDefaultY(r) \/ LoadDefaultB(r) \/ LoadDefaultI(r) \/ LoadReady(r)
    \/ LoadRaise(r)
    \/ LoadExceptY(r) \/ LoadExceptB(r) \/ LoadExceptI(r) \/ LoadExceptReady(r)

\* ------------------------------------------------------------- _get_model
\* the text of _model_err (line 35) for the import failure
ImportError == "Model yuklenemedi: No module named 'proje'"

get_model_retry(m, e, imp) ==
    IF m # "None" THEN [model |-> m, err |-> e, ok |-> TRUE, line |-> 28]
    ELSE IF imp THEN [model |-> "proje", err |-> e, ok |-> TRUE, line |-> 33]
    ELSE [model |-> m, err |-> ImportError, ok |-> FALSE, line |-> 36]

\* lines 25-36: what the call leaves in _model and _model_err, whether it
\* returned the model (ok) or raised RuntimeError(_model_err), and at which line
get_model(m, e, imp) ==
    IF m # "None" THEN [model |-> m, err |-> e, ok |-> TRUE, line |-> 28]
    ELSE IF e # "None" THEN [model |-> m, err |-> e, ok |-> FALSE, line |-> 30]
    ELSE IF imp THEN [model |-> "proje", err |-> e, ok |-> TRUE, line |-> 33]
    ELSE [model |-> m, err |-> ImportError, ok |-> FALSE, line |-> 36]

\* ---------------------------------------------------------------- handlers
\* the event loop runs one async handler at a time
LoopFree(r) ==
    \A q \in Req \ {r} : ~(req[q].kind \in AsyncKinds /\ req[q].pc \notin {"idle", "done"})

\* GET /health (lines 238-240)
health(r) ==
    /\ req[r].pc = "idle"
    /\ Set(r, [IdleReq EXCEPT !.kind = "health", !.pc = "done", !.resp.status = 200])
    /\ UNCHANGED << _OPTIONS_READY, lists, modelv, env, origin, catalogSrc >>

\* GET / is received (line 247)
form_get(r) ==
    /\ req[r].pc = "idle"
    /\ Set(r, [IdleReq EXCEPT !.kind = "form_get", !.pc = "chk"])
    /\ UNCHANGED << _OPTIONS_READY, lists, modelv, env, origin, catalogSrc >>

\* GET /api/options is received (line 347)
api_options(r) ==
    /\ req[r].pc = "idle"
    /\ Set(r, [IdleReq EXCEPT !.kind = "api_options", !.pc = "chk"])
    /\ UNCHANGED << _OPTIONS_READY, lists, modelv, env, origin, catalogSrc >>

\* POST /tahmin is received with its form fields (lines 262-267)
tahmin_post(r, inputs) ==
    /\ req[r].pc = "idle"
    /\ LoopFree(r)
    /\ \E inp \in inputs :
         Set(r, [IdleReq EXCEPT !.kind = "tahmin_post", !.pc = "chk", !.inp = inp])
    /\ UNCHANGED << _OPTIONS_READY, lists, modelv, env, origin, catalogSrc >>

\* POST /api/predict is received with its JSON payload (line 313)
api_predict(r, inputs) ==
    /\ req[r].pc = "idle"
    /\ LoopFree(r)
    /\ \E inp \in inputs :
         Set(r, [IdleReq EXCEPT !.kind = "api_predict", !.pc = "chk", !.inp = inp])
    /\ UNCHANGED << _OPTIONS_READY, lists, modelv, env, origin, catalogSrc >>

\* lines 249-251 of form_get: the warning block
FormWarn(r) ==
    /\ req[r].pc = "fg_warn"
    /\ Set(r, [req[r] EXCEPT !.pc = "rd_y", !.resp.warn = ~excel.exists /\ ~pred.exists])
    /\ UNCHANGED << _OPTIONS_READY, lists, modelv, env, origin, catalogSrc >>

\* lines 269-280 and 315-318: m = _get_model(), and the HTTP 500 answer
GetModel(r) ==
    /\ req[r].pc = "gm"
    /\ LET g == get_model(_model, _model_err, importable) IN
         /\ _model' = g.model
         /\ _model_err' = g.err
         /\ importFailed' = (importFailed \/ g.line = 36)
         /\ IF g.ok
            THEN Goto(r, "pr")
            ELSE Set(r, [req[r] EXCEPT
                           !.gm = [line |-> g.line, imp |-> importable],
                           !.pc = IF req[r].kind = "tahmin_post" THEN "rd_y" ELSE "done",
                           !.resp.status = 500,
                           !.resp.error = g.err])
    /\ UNCHANGED << _OPTIONS_READY, lists, env, origin, catalogSrc >>

\* lines 282-294 of tahmin_post; the model returns pred_rule and p_ens and
\* holds the attribute XGB_RULE_BLEND
TahminPredict(r, rules, enss, attrs) ==
    /\ req[r].pc = "pr"
    /\ req[r].kind = "tahmin_post"
    /\ \E pred_rule \in rules, p_ens \in enss, attr \in attrs :
         LET final == PredFinal(pred_rule, p_ens, attr) IN
         Set(r, [req[r] EXCEPT
                   !.pc = "rd_y",
                   !.resp = [NoResp EXCEPT !.status = 200,
                                           !.calls = TahminCalls(req[r].inp, final),
                                           !.rule = pred_rule, !.ens = p_ens,
                                           !.attr = attr, !.final = final]])
    /\ UNCHANGED << _OPTIONS_READY, lists, modelv, env, origin, catalogSrc >>

\* line 323: isinstance(icds_in, list)
ApiIcdIsList(icd) == IcdsIn(icd).jt = "list"

\* lines 320-344 of api_predict
ApiPredict(r, rules, enss, attrs) ==
    /\ req[r].pc = "pr"
    /\ req[r].kind = "api_predict"
    /\ IF ~ApiIcdIsList(req[r].inp.icd)
       THEN Set(r, [req[r] EXCEPT !.pc = "done", !.resp.status = 400,
                                  !.resp.error = "icd must be list"])
       ELSE \E pred_rule \in rules, p_ens \in enss, attr \in attrs :
              LET final == PredFinal(pred_rule, p_ens, attr) IN
              Set(r, [req[r] EXCEPT
                        !.pc = "done",
                        !.resp = [NoResp EXCEPT !.status = 200,
                                                !.calls = ApiCalls(req[r].inp, final),
                                                !.rule = pred_rule, !.ens = p_ens,
                                                !.attr = attr, !.final = final]])
    /\ UNCHANGED << _OPTIONS_READY, lists, modelv, env, origin, catalogSrc >>

\* the handler reads YASGRUP_LIST (lines 253, 274, 304, 349)
ReadY(r) ==
    /\ req[r].pc = "rd_y"
    /\ Set(r, [req[r] EXCEPT !.pc = "rd_b", !.view[1] = YASGRUP_LIST, !.vo[1] = origin.y])
    /\ UNCHANGED << _OPTIONS_READY, lists, modelv, env, origin, catalogSrc >>

\* the handler reads BOLUM_LIST (lines 254, 275, 305, 349)
ReadB(r) ==
    /\ req[r].pc = "rd_b"
    /\ Set(r, [req[r] EXCEPT !.pc = "rd_i", !.view[2] = BOLUM_LIST, !.vo[2] = origin.b])
    /\ UNCHANGED << _OPTIONS_READY, lists, modelv, env, origin, catalogSrc >>

\* the handler reads ICD_LIST and answers (lines 255-259, 276-280, 306-310, 349)
ReadI(r) ==
    /\ req[r].pc = "rd_i"
    /\ Set(r, [req[r] EXCEPT !.pc = "done", !.view[3] = ICD_LIST, !.vo[3] = origin.i,
                             !.resp.status = IF @ = 0 THEN 200 ELSE @])
    /\ UNCHANGED << _OPTIONS_READY, lists, modelv, env, origin, catalogSrc >>

\* the response has been sent; the slot serves the next request
Reply(r) ==
    /\ req[r].pc = "done"
    /\ Set(r, IdleReq)
    /\ UNCHANGED << _OPTIONS_READY, lists, modelv, env, origin, catalogSrc >>

\* ------------------------------------------------------------- environment
\* a data file is created, replaced or deleted while the process runs
FsChange(primaries, secondaries) ==
    /\ changes < MaxFsChanges
    /\ changes' = changes + 1
    /\ \/ (\E f \in primaries \ {excel} : excel' = f) /\ pred' = pred
       \/ (\E f \in secondaries \ {pred} : pred' = f) /\ excel' = excel
    /\ UNCHANGED << _OPTIONS_READY, lists, modelv, importable, req, origin, catalogSrc >>

\* the module proje becomes importable, or stops being so
ModuleChange ==
    /\ changes < MaxFsChanges
    /\ changes' = changes + 1
    /\ importable' = ~importable
    /\ UNCHANGED << _OPTIONS_READY, lists, modelv, excel, pred, req, origin, catalogSrc >>

\* ------------------------------------------------------------------ inputs
Tokens == { <<105, 49, 48>>, <<32, 101, 49, 49, 32>>, s_E11, <<32>> }
                                                  \* "i10", " e11 ", "E11", " "
IcdLists == { JList(q) : q \in SeqsUpTo(Tokens, MaxIcd) }
YVals == { s_35_50, <<32, 51, 53, 45, 53, 48>> }     \* "35-50", " 35-50"
FreeVals == { JNull, JStr(<<101, 49, 49, 59, 32, 44, 105, 49, 48>>) }   \* "e11; ,i10"
NonLists == { JStr(<<>>), JStr(s_I10), JInt(0), JInt(5), JBool(0), JBool(1),
              JDict(0), JDict(1) }

\* every ICD input with the plain age group, and every age group with one
TahminInputs ==
    { [yasgrup |-> s_35_50, bolum |-> s_Dahiliye, icd |-> i, free |-> f] :
        i \in IcdLists \cup {JNull}, f \in FreeVals }
    \cup { [yasgrup |-> y, bolum |-> s_Dahiliye, icd |-> JList(<< s_E11 >>), free |-> JNull] :
             y \in YVals }
ApiInputs ==
    { [yasgrup |-> s_35_50, bolum |-> s_Dahiliye, icd |-> i, free |-> JAbsent] :
        i \in IcdLists \cup NonLists \cup {JAbsent, JNull} }
    \cup { [yasgrup |-> y, bolum |-> s_Dahiliye, icd |-> JList(<< s_E11 >>), free |-> JAbsent] :
             y \in YVals \cup {<<>>} }

TahminInputsSmall ==
    { [yasgrup |-> s_35_50, bolum |-> s_Dahiliye, icd |-> i, free |-> JNull] :
        i \in {JNull, JList(<< <<105, 49, 48>> >>)} }
ApiInputsSmall ==
    { [yasgrup |-> s_35_50, bolum |-> s_Dahiliye, icd |-> i, free |-> JAbsent] :
        i \in {JList(<< <<105, 49, 48>> >>), JStr(<<>>), JStr(s_I10)} }

Rules == {3}
\* what xgb_predict_ens returns: null or a float (finite, NaN, +/- infinity),
\* and a finite number of another numeric type
Enss == { ENone, EVal("float", "num", 5), EVal("float", "nan", 0), EVal("float", "pinf", 0),
          EVal("float", "ninf", 0), EVal("other", "num", 5) }
Attrs == { [k |-> "absent", q |-> 0], [k |-> "bad", q |-> 0],
           [k |-> "num", q |-> 1], [k |-> "num", q |-> 4] }
EnssSmall == { ENone, EVal("float", "num", 5) }
AttrsSmall == { [k |-> "absent", q |-> 0] }

SmallPrimary == {AbsentFile, P1}
SmallSecondary == {AbsentFile, S1}

\* ---------------------------------------------------------- specifications
InitWith(files, imps) ==
    /\ _OPTIONS_READY = FALSE
    /\ YASGRUP_LIST = <<>>
    /\ BOLUM_LIST = <<>>
    /\ ICD_LIST = <<>>
    /\ _model = "None"
    /\ _model_err = "None"
    /\ \E f \in files : excel = f[1] /\ pred = f[2]
    /\ importable \in imps
    /\ changes = 0
    /\ req = [r \in Req |-> IdleReq]
    /\ origin = [y |-> 0, b |-> 0, i |-> 0]
    /\ catalogSrc = "none"
    /\ importFailed = FALSE

ReadStep(r) == ReadY(r) \/ ReadB(r) \/ ReadI(r)

\* The server as deployed: the sync handlers run in worker threads and
\* interleave statement by statement, while the data files may change.
Init == InitWith({ <<AbsentFile, S1>> }, {TRUE})
Next ==
    \/ \E r \in Req :
         \/ health(r) \/ form_get(r) \/ api_options(r)
         \/ LoadStep(r) \/ FormWarn(r) \/ ReadStep(r) \/ Reply(r)
    \/ FsChange(SmallPrimary, SmallSecondary)
Spec == Init /\ [][Next]_vars

\* Requests served one after the other (a request is taken only when no other
\* is being served), while the data files and the module proje may change.
InitSeq == InitWith(SmallPrimary \X SmallSecondary, BOOLEAN)
NextSeq ==
    \/ \E r \in Req :
         \/ Solo(r) /\ health(r)
         \/ Solo(r) /\ form_get(r)
         \/ Solo(r) /\ api_options(r)
         \/ Solo(r) /\ tahmin_post(r, TahminInputsSmall)
         \/ Solo(r) /\ api_predict(r, ApiInputsSmall)
         \/ LoadStep(r) \/ FormWarn(r) \/ GetModel(r)
         \/ TahminPredict(r, Rules, EnssSmall, AttrsSmall)
         \/ ApiPredict(r, Rules, EnssSmall, AttrsSmall)
         \/ ReadStep(r) \/ Reply(r)
    \/ FsChange(SmallPrimary, SmallSecondary)
    \/ ModuleChange
SpecSeq == InitSeq /\ [][NextSeq]_vars

\* Requests served one after the other: every request input with the plain
\* answers of the model, and every answer of the model to the plain inputs.
EnssFor(r) == IF req[r].inp \in TahminInputsSmall \cup ApiInputsSmall THEN Enss ELSE EnssSmall
AttrsFor(r) == IF req[r].inp \in TahminInputsSmall \cup ApiInputsSmall THEN Attrs ELSE AttrsSmall

InitPredict == InitWith({ <<P1, AbsentFile>>, <<AbsentFile, S1>>, <<AbsentFile, AbsentFile>> },
                        BOOLEAN)
NextPredict ==
    \E r \in Req :
      \/ Solo(r) /\ health(r)
      \/ Solo(r) /\ form_get(r)
      \/ Solo(r) /\ api_options(r)
      \/ Solo(r) /\ tahmin_post(r, TahminInputs)
      \/ Solo(r) /\ api_predict(r, ApiInputs)
      \/ LoadStep(r) \/ FormWarn(r) \/ GetModel(r)
      \/ TahminPredict(r, Rules, EnssFor(r), AttrsFor(r))
      \/ ApiPredict(r, Rules, EnssFor(r), AttrsFor(r))
      \/ ReadStep(r) \/ Reply(r)
SpecPredict == InitPredict /\ [][NextPredict]_vars

\* GET /api/options, one request after the other, over every spreadsheet of at
\* most MaxRows rows.
InitLoad == InitWith(({ <<f, AbsentFile>> : f \in RichPrimary })
                     \cup ({ <<AbsentFile, g>> : g \in RichSecondary \cup {AbsentFile} }),
                     {TRUE})
NextLoad ==
    \E r \in Req :
      \/ Solo(r) /\ api_options(r)
      \/ LoadStep(r) \/ ReadStep(r) \/ Reply(r)
SpecLoad == InitLoad /\ [][NextLoad]_vars

\* ------------------------------------------------------------------ claims
Defaults == << DEFAULT_YASGRUP, DEFAULT_BOLUM, DEFAULT_ICD >>
NoDup(q) == \A i, j \in 1..Len(q) : i # j => q[i] # q[j]
AscLex(q) == \A i \in 1..(Len(q) - 1) : ~StrLess(q[i + 1], q[i])
AscLenLex(q) == \A i \in 1..(Len(q) - 1) : ~KeyLess(q[i + 1], q[i])
Reverse(q) == [i \in 1..Len(q) |-> q[Len(q) + 1 - i]]

\* the statements of _load_options_once after the early return
LoaderBodyPcs == LoadPcs \ {"chk"}
\* the handler is past its call of _load_options_once
Returned(r) == req[r].pc \notin LoadPcs \cup {"idle"} /\ req[r].kind # "health"
Answered(r) == req[r].pc = "done"
Predicted(r) ==
    /\ req[r].kind \in AsyncKinds
    /\ req[r].pc \in {"rd_y", "rd_b", "rd_i", "done"}
    /\ req[r].resp.status = 200

\* C1: with requests served one after the other, once a call of
\* _load_options_once has set _OPTIONS_READY, every step leaves YASGRUP_LIST,
\* BOLUM_LIST and ICD_LIST as they are and _OPTIONS_READY true, and no request
\* is ever again at a statement of the loader after the early return (so no
\* later call checks for or reads a file), whatever happens to the data files.
C1_LaterCallsAreCached ==
    [][_OPTIONS_READY =>
         /\ UNCHANGED lists
         /\ _OPTIONS_READY'
         /\ \A r \in Req : req'[r].pc \notin LoaderBodyPcs]_vars

\* C1 witness: GET / found both data files gone (its warning block), its call of
\* _load_options_once returned from the cache, and the catalog is still the one
\* the first call read from the primary spreadsheet.
C1_Witness ==
    \E r \in Req :
      /\ req[r].kind = "form_get" /\ Answered(r)
      /\ req[r].path = "cached" /\ req[r].resp.warn
      /\ catalogSrc = "primary"
      /\ req[r].view = << safe_unique(DfGet(derive_yasgrup_if_needed(P1.df), "YasGrup")),
                          safe_unique(DfGet(P1.df, "Bolum")),
                          primary_icd_list(P1.df) >>

\* C2: whenever a handler is past its call of _load_options_once,
\* _OPTIONS_READY is true; and if that call found neither file or had a step
\* raise, the three lists are exactly the default catalog.
C2_LoadNeverFailsOutward ==
    \A r \in Req :
      Returned(r) =>
        /\ _OPTIONS_READY
        /\ req[r].path \in {"nofile", "raised"} => lists = Defaults

\* C2 witness: a step raised after ICD_LIST had been assigned a non-default
\* value from the primary spreadsheet, and the call has returned.
C2_Witness ==
    \E r \in Req :
      /\ Returned(r)
      /\ req[r].raisedAt \in {"yas_p", "bol_p"}
      /\ primary_icd_list(req[r].df) \notin {DEFAULT_ICD, <<>>}
      /\ lists = Defaults

\* C3: once import_module("proje") has failed, the model stays unloaded, every
\* prediction request answered is an HTTP 500 carrying _model_err with no model
\* call made, and GET /api/options and GET /health are answered with 200.
C3_ModelLoadFailureIsSticky ==
    importFailed =>
      /\ _model = "None"
      /\ _model_err # "None"
      /\ \A r \in Req :
           /\ (req[r].kind \in AsyncKinds /\ req[r].pc \in {"pr", "rd_y", "rd_b", "rd_i", "done"}) =>
                /\ req[r].resp.status = 500
                /\ req[r].resp.error = _model_err
                /\ req[r].resp.calls = <<>>
           /\ (req[r].kind \in {"api_options", "health"} /\ Answered(r)) =>
                req[r].resp.status = 200

\* C3 witness: a later prediction request got the cached error (line 30) as an
\* HTTP 500 although the module was importable when it asked for the model.
C3_Witness ==
    \E r \in Req :
      /\ req[r].kind \in AsyncKinds /\ Answered(r)
      /\ req[r].gm = [line |-> 30, imp |-> TRUE]
      /\ req[r].resp.status = 500

\* C4 (as claimed): once _OPTIONS_READY is true no step writes YASGRUP_LIST,
\* BOLUM_LIST or ICD_LIST, and every answered GET / or GET /api/options read all
\* three lists from one and the same call of _load_options_once.
C4_PopulatedAtMostOnce ==
    [][/\ _OPTIONS_READY => UNCHANGED lists
       /\ \A r \in Req :
            (req'[r].kind \in {"form_get", "api_options"} /\ req'[r].pc = "done") =>
              (req'[r].vo[1] = req'[r].vo[2] /\ req'[r].vo[2] = req'[r].vo[3])]_vars

\* the blend the claim states, in quarters
ClaimedFinal(rule, e, w4) ==
    IF e.py = "None" \/ e.t \in {"nan", "pinf", "ninf"}
    THEN FNum(4 * rule)
    ELSE FNum((4 - w4) * rule + w4 * e.v)

InputTokens(inp) ==
    (IF inp.icd.jt = "list" THEN ToSet(inp.icd.items) ELSE {})
    \cup (IF inp.free.jt = "str" THEN ToSet(Split(Replace(inp.free.s, 59, 44), <<44>>)) ELSE {})
NormalizedCodes(inp) == { Upper(Strip(x)) : x \in InputTokens(inp) } \ { <<>> }
KeyPieces(key) == IF key = <<>> THEN <<>> ELSE Split(key, s_sep)
\* the key a handler hands to clean_icd_set_key for an input
KeyFor(kind, inp) ==
    IF kind = "tahmin_post" THEN TahminCalls(inp, FNum(0))[1].a1 ELSE ApiCalls(inp, FNum(0))[1].a1
Rearranged(inp) ==
    IF inp.icd.jt = "list"
    THEN [inp EXCEPT !.icd = JList(Reverse(inp.icd.items) \o inp.icd.items)]
    ELSE inp

\* C6: the key handed to clean_icd_set_key is the trimmed, uppercased,
\* non-empty, distinct codes of the inputs in strictly ascending order joined
\* with "||", and it is the same for the inputs reversed and repeated.
C6_IcdKeyCanonical ==
    \A r \in Req :
      Predicted(r) =>
        LET key == req[r].resp.calls[1].a1
            pieces == KeyPieces(key)
        IN  /\ req[r].resp.calls[1].fn = "clean_icd_set_key"
            /\ ToSet(pieces) = NormalizedCodes(req[r].inp)
            /\ \A i \in 1..Len(pieces) : pieces[i] # <<>>
            /\ \A i \in 1..(Len(pieces) - 1) : StrLess(pieces[i], pieces[i + 1])
            /\ key = KeyFor(req[r].kind, Rearranged(req[r].inp))

\* C6 witness: POST /api/predict with icd ["i10", " e11 "] handed E11||I10 to
\* clean_icd_set_key.
C6_Witness ==
    \E r \in Req :
      /\ Predicted(r) /\ req[r].kind = "api_predict"
      /\ req[r].inp.icd = JList(<< <<105, 49, 48>>, <<32, 101, 49, 49, 32>> >>)
      /\ req[r].resp.calls[1].a1 = s_E11 \o s_sep \o s_I10

\* C7 (as claimed): POST /api/predict, with the model loaded, answers 400 and
\* makes no model call whenever icd is present and is not a list.
C7_NonListIcdRejected ==
    \A r \in Req :
      (/\ req[r].kind = "api_predict" /\ Answered(r)
       /\ req[r].resp.status # 500
       /\ req[r].inp.icd.jt \notin {"absent", "list"}) =>
        (req[r].resp.status = 400 /\ req[r].resp.calls = <<>>)

\* C8 (as claimed): once the catalog is loaded, from whichever branch, each list
\* is duplicate-free, age groups and departments ascend by (length, text) and
\* ICD codes ascend lexicographically.
C8_CatalogSorted ==
    _OPTIONS_READY =>
      /\ NoDup(YASGRUP_LIST) /\ NoDup(BOLUM_LIST) /\ NoDup(ICD_LIST)
      /\ AscLenLex(YASGRUP_LIST) /\ AscLenLex(BOLUM_LIST) /\ AscLex(ICD_LIST)

\* C8 (amended): once the catalog is loaded, each list is duplicate-free;
\* departments ascend by (length, text); the age groups ascend by (length,
\* text) unless they are the default list, and the ICD codes ascend
\* lexicographically unless they are the default list.
C8_CatalogSortedUnlessDefault ==
    _OPTIONS_READY =>
      /\ NoDup(YASGRUP_LIST) /\ NoDup(BOLUM_LIST) /\ NoDup(ICD_LIST)
      /\ AscLenLex(BOLUM_LIST)
      /\ (YASGRUP_LIST = DEFAULT_YASGRUP \/ AscLenLex(YASGRUP_LIST))
      /\ (ICD_LIST = DEFAULT_ICD \/ AscLex(ICD_LIST))

\* C8 witness: a catalog read from the primary spreadsheet with at least two
\* entries in every list.
C8_Witness ==
    /\ _OPTIONS_READY /\ catalogSrc = "primary"
    /\ Len(YASGRUP_LIST) >= 2 /\ Len(BOLUM_LIST) >= 2 /\ Len(ICD_LIST) >= 2

\* the age group the claim gives an age cell: one of the nine buckets for an
\* age >= 0, the null group for a negative, missing, NaN or unparseable age
ClaimedGroup(c) ==
    LET p == FloatOf(c) IN
    IF ~p.ok \/ p.f.t \in {"nan", "ninf"} THEN CNone
    ELSE IF p.f.t = "pinf" THEN CStr(s_65p)
    ELSE IF p.f.v < 0 THEN CNone
    ELSE IF p.f.v <= 2 * 1 THEN CStr(s_0_1)
    ELSE IF p.f.v <= 2 * 5 THEN CStr(s_2_5)
    ELSE IF p.f.v <= 2 * 10 THEN CStr(s_5_10)
    ELSE IF p.f.v <= 2 * 15 THEN CStr(s_10_15)
    ELSE IF p.f.v <= 2 * 25 THEN CStr(s_15_25)
    ELSE IF p.f.v <= 2 * 35 THEN CStr(s_25_35)
    ELSE IF p.f.v <= 2 * 50 THEN CStr(s_35_50)
    ELSE IF p.f.v <= 2 * 65 THEN CStr(s_50_65)
    ELSE CStr(s_65p)

\* C9 (as claimed): when the age group is derived from the age column, every
\* row gets the claimed group, and once YASGRUP_LIST is assigned it holds
\* exactly the non-null claimed groups.
C9_AgeMapping ==
    \A r \in Req :
      (req[r].derived /\ req[r].pc \in {"icd_p", "yas_p", "bol_p", "rdy"}) =>
        /\ \A i \in 1..req[r].df.rows :
             req[r].df.col["YasGrup"][i] = ClaimedGroup(req[r].df.col["Yas"][i])
        /\ req[r].pc \in {"bol_p", "rdy"} =>
             ToSet(YASGRUP_LIST) =
               { ClaimedGroup(req[r].df.col["Yas"][i]).s : i \in 1..req[r].df.rows } \ { <<>> }

\* C10 (as claimed): POST /tahmin with an ICD list and no free text makes the
\* model calls POST /api/predict makes for the same age group, department and
\* ICD list, with the same arguments.
C10_HandlersEquivalent ==
    \A r \in Req :
      (/\ Predicted(r) /\ req[r].kind = "tahmin_post"
       /\ req[r].inp.icd.jt = "list" /\ ~Truthy(req[r].inp.free)) =>
        req[r].resp.calls = ApiCalls(req[r].inp, req[r].resp.final)

====
